---- MODULE Spec2Model ----
(***************************************************************************)
(* Monte Carlo Tree Search of src/src/main.rs (heads/tails accumulation    *)
(* game, 10 rounds).  The tree of owned boxes is kept as an arena: `nodes` *)
(* is the sequence of all Node values ever pushed into the tree, a         *)
(* `children` list holds arena positions (the owning Box pointers), and    *)
(* position 1 is Tree.root.  Option<i32> is a sequence of length 0 (None)  *)
(* or 1 (Some).                                                            *)
(*                                                                         *)
(* The bodies of is_fully_expanded, best_child, uct_value and best_action  *)
(* are unimplemented!() in the source, and backpropagate's step to the     *)
(* next node is an unfinished assignment; these are modelled from the      *)
(* design document and marked so in the map.  Everything else is the       *)
(* source as written.                                                      *)
(***************************************************************************)
EXTENDS Integers, Sequences, FiniteSets, TLC

\* ------------------------------------------------------------------ bounds
\* Largest n_iterations a search is started with.
MaxIter == 7

\* ------------------------------------------------------- program constants
\* is_terminal: node.state.round == 10
TerminalRound == 10

\* Tree.root: the arena position of the root node.
tree_root == 1

Heads == "Heads"
Tails == "Tails"
Action == {Heads, Tails}

None == << >>
Some(x) == << x >>

\* main's state, and three later positions of the same game (round 8, round
\* 9, and a finished game), each with main's two action lists.
GameState(my, op, r) ==
  [my_score |-> my, op_score |-> op,
   my_possible_actions |-> << Heads, Tails >>,
   op_possible_actions |-> << Heads, Tails >>,
   round |-> r]

InitialStates ==
  { GameState(0, 0, 0), GameState(4, 4, 8), GameState(5, 4, 9), GameState(5, 5, 10) }

\* mcts takes n_iterations: i32; 0..n is empty for n <= 0.
IterationCounts == {0 - 1} \cup (0 .. MaxIter)

VARIABLES
  nodes,         \* the tree: arena of Node records
  current_id,    \* mcts: let mut current_id
  n_iterations,  \* mcts: parameter
  iter,          \* mcts: iterations of the for loop completed
  pc,            \* position in mcts
  cur,           \* select / backpropagate: current_node (arena position)
  path,          \* select: the nodes descended through, in order
  selected,      \* mcts: the outer `node`, select's result (None before)
  expanded,      \* mcts: the inner `node`, expand's result (None before)
  sim,           \* simulate: the transient current_node (None outside)
  sim_steps,     \* simulate: transient nodes pushed in this rollout
  result,        \* mcts: result
  pre,           \* the tree as it was when backpropagate was entered
  ret,           \* mcts: the action returned (None before, and on failure)
  error          \* the error kind the call failed with (None if it has not)

vars == << nodes, current_id, n_iterations, iter, pc, cur, path, selected,
           expanded, sim, sim_steps, result, pre, ret, error >>

\* ------------------------------------------------------------------- Node
Node_new(id, action, state, parent_id) ==
  [id |-> id, visits |-> 1, wins |-> 0, action |-> action, state |-> state,
   children |-> << >>, parent_id |-> parent_id]

\* Node::contains over a node record whose children are arena positions.
Node_contains(node, action) ==
  \E k \in 1 .. Len(node.children) : nodes[node.children[k]].action = action

\* ------------------------------------------------------ simulation helpers
\* Mutant: a drawn game counts as a win.
evaluate_ties_win(node) == node.state.my_score >= node.state.op_score

evaluate(node) == node.state.my_score > node.state.op_score

\* Mutant: the terminal test is one round late.
is_terminal_one_late(node) == node.state.round = TerminalRound + 1

is_terminal(node) == node.state.round = TerminalRound

\* Mutant: Tails scores for both parties.
apply_action_tails_both(state, action) ==
  [my_score |-> state.my_score + 1,
   op_score |-> IF action = Tails THEN state.op_score + 1 ELSE state.op_score,
   my_possible_actions |-> state.my_possible_actions,
   op_possible_actions |-> state.op_possible_actions,
   round |-> state.round + 1]

\* The successor state built in expand and in simulate's loop body.
apply_action(state, action) ==
  [my_score |-> IF action = Heads THEN state.my_score + 1 ELSE state.my_score,
   op_score |-> IF action = Tails THEN state.op_score + 1 ELSE state.op_score,
   my_possible_actions |-> state.my_possible_actions,
   op_possible_actions |-> state.op_possible_actions,
   round |-> state.round + 1]

\* Mutant: the filter on node.contains is dropped.
unexplored_actions_unfiltered(node) == node.state.my_possible_actions

\* my_possible_actions filtered by !node.contains(action), in order.
unexplored_actions(node) ==
  SelectSeq(node.state.my_possible_actions, LAMBDA a : ~Node_contains(node, a))

SeqRange(s) == { s[k] : k \in 1 .. Len(s) }

\* ------------------------------------------------------- selection helpers
\* Fully expanded: the number of children equals the number of legal actions.
is_fully_expanded(node) ==
  Len(node.children) = Len(node.state.my_possible_actions)

\* round(1000 * ln n) for n in 1..16; ln n = ln 2 + ln(n/2) beyond the table.
LnTable ==
  << 0, 693, 1099, 1386, 1609, 1792, 1946, 2079,
     2197, 2303, 2398, 2485, 2565, 2639, 2708, 2773 >>

RECURSIVE Ln1000(_)
Ln1000(n) == IF n <= Len(LnTable) THEN LnTable[n] ELSE 693 + Ln1000(n \div 2)

\* floor(sqrt(n)) by bisection on lo..hi, lo*lo <= n < (hi+1)*(hi+1).
RECURSIVE ISqrtIn(_, _, _)
ISqrtIn(n, lo, hi) ==
  IF lo = hi THEN lo
  ELSE LET mid == (lo + hi + 1) \div 2
       IN IF mid * mid <= n THEN ISqrtIn(n, mid, hi) ELSE ISqrtIn(n, lo, mid - 1)

\* 46340 = floor(sqrt(2^31 - 1)): mid * mid stays within TLC's integers.
ISqrt(n) == ISqrtIn(n, 0, IF n < 46340 THEN n ELSE 46340)

\* Mutant: the exploration term is dropped.
uct_value_exploit_only(parent, child) == (1000 * child.wins) \div child.visits

\* UCB1(child) = wins/visits + C * sqrt(ln(parent.visits) / visits), C = sqrt 2,
\* in thousandths: 1000*w/v + sqrt(2 * 1000*ln(N) * 1000 / v), rounded down.
uct_value(parent, child) ==
  (1000 * child.wins) \div child.visits
    + ISqrt((2 * Ln1000(parent.visits) * 1000) \div child.visits)

\* The position in node.children of the first child with the greatest score
\* among the first k children.
RECURSIVE best_child_index(_, _)
best_child_index(node, k) ==
  IF k = 1 THEN 1
  ELSE LET b == best_child_index(node, k - 1)
       IN IF uct_value(node, nodes[node.children[k]])
               > uct_value(node, nodes[node.children[b]])
          THEN k ELSE b

best_child(node) == node.children[best_child_index(node, Len(node.children))]

\* Mutant: select descends through any node that has a child.
select_continues_nonleaf(i) == nodes[i].children # << >>

\* select's loop condition: while is_fully_expanded(current_node).
select_continues(i) == is_fully_expanded(nodes[i])

\* ------------------------------------------------------------- move selector
\* The position in the root's children of the first child with the most
\* visits among the first k children.
\* Mutant: among children with equally many visits the last one wins.
RECURSIVE most_visited_index_last(_, _)
most_visited_index_last(node, k) ==
  IF k = 1 THEN 1
  ELSE LET b == most_visited_index_last(node, k - 1)
       IN IF nodes[node.children[k]].visits >= nodes[node.children[b]].visits
          THEN k ELSE b

RECURSIVE most_visited_index(_, _)
most_visited_index(node, k) ==
  IF k = 1 THEN 1
  ELSE LET b == most_visited_index(node, k - 1)
       IN IF nodes[node.children[k]].visits > nodes[node.children[b]].visits
          THEN k ELSE b

best_action(root) ==
  nodes[root.children[most_visited_index(root, Len(root.children))]].action

\* ---------------------------------------------------------- backpropagation
\* Mutant: a lost playout takes a visit back.
backpropagate_update_loss_undoes(node, res) ==
  [node EXCEPT !.visits = IF res THEN @ + 1 ELSE @ - 1,
               !.wins = IF res THEN @ + 1 ELSE @]

\* Mutant: the loop body forgets visits += 1.
backpropagate_update_wins_only(node, res) ==
  [node EXCEPT !.wins = IF res THEN @ + 1 ELSE @]

\* The body of backpropagate's loop on one node.
backpropagate_update(node, res) ==
  [node EXCEPT !.visits = @ + 1, !.wins = IF res THEN @ + 1 ELSE @]

\* backpropagate's loop condition: while let Some(parent_id) = ...parent_id.
backpropagate_continues(node) == node.parent_id # None

\* The unfinished `current_node =`: the node of the tree whose id is parent_id.
find_node(id) == CHOOSE i \in 1 .. Len(nodes) : nodes[i].id = id

\* -------------------------------------------------------------------- mcts
Init ==
  /\ \E s \in InitialStates : nodes = << Node_new(0, Heads, s, None) >>
  /\ current_id = 0
  /\ n_iterations \in IterationCounts
  /\ iter = 0
  /\ pc = "loop"
  /\ cur = tree_root
  /\ path = << >>
  /\ selected = None
  /\ expanded = None
  /\ sim = None
  /\ sim_steps = 0
  /\ result = FALSE
  /\ pre = << >>
  /\ ret = None
  /\ error = None

\* Mutant: the range is inclusive, 0..=n_iterations.
loop_continues_inclusive == iter <= n_iterations

\* for _ in 0..n_iterations: whether another iteration is due.
loop_continues == iter < n_iterations

\* for _ in 0..n_iterations: the next iteration starts with select at the root.
mcts_iterate ==
  /\ pc = "loop"
  /\ loop_continues
  /\ pc' = "select"
  /\ cur' = tree_root
  /\ path' = << >>
  /\ selected' = None
  /\ expanded' = None
  /\ UNCHANGED << nodes, current_id, n_iterations, iter, sim, sim_steps,
                  result, pre, ret, error >>

\* select: one turn of the while loop.
select_descend ==
  /\ pc = "select"
  /\ select_continues(cur)
  /\ cur' = best_child(nodes[cur])
  /\ path' = Append(path, cur)
  /\ UNCHANGED << nodes, current_id, n_iterations, iter, pc, selected,
                  expanded, sim, sim_steps, result, pre, ret, error >>

\* select: the loop ends and current_node is returned.
select_return ==
  /\ pc = "select"
  /\ ~select_continues(cur)
  /\ selected' = Some(cur)
  /\ pc' = "branch"
  /\ UNCHANGED << nodes, current_id, n_iterations, iter, cur, path,
                  expanded, sim, sim_steps, result, pre, ret, error >>

\* mcts: if is_terminal(node) { evaluate(node) }, then backpropagate(node, ..).
mcts_evaluate ==
  /\ pc = "branch"
  /\ is_terminal(nodes[selected[1]])
  /\ result' = evaluate(nodes[selected[1]])
  /\ pc' = "backprop"
  /\ cur' = selected[1]
  /\ pre' = nodes
  /\ UNCHANGED << nodes, current_id, n_iterations, iter, path, selected,
                  expanded, sim, sim_steps, ret, error >>

\* Mutant: expand advances the expanded node's own state in place and hands
\* the child that same state.
expand_tree_in_place(p, a) ==
  Append([nodes EXCEPT ![p].children = Append(@, Len(nodes) + 1),
                       ![p].state = apply_action(@, a)],
         Node_new(current_id + 1, a, apply_action(nodes[p].state, a),
                  Some(current_id)))

\* Mutant: expand also counts a visit on the node it expands.
expand_tree_counts_visit(p, a) ==
  Append([nodes EXCEPT ![p].children = Append(@, Len(nodes) + 1),
                       ![p].visits = @ + 1],
         Node_new(current_id + 1, a, apply_action(nodes[p].state, a),
                  Some(current_id)))

\* The tree after expand pushed a child with action a onto node p.
expand_tree(p, a) ==
  Append([nodes EXCEPT ![p].children = Append(@, Len(nodes) + 1)],
         Node_new(current_id + 1, a, apply_action(nodes[p].state, a),
                  Some(current_id)))

\* mcts: else { let (node, new_id) = expand(node, current_id); current_id =
\* new_id; ... }.  choose() draws any of the unexplored actions.
expand ==
  /\ pc = "branch"
  /\ ~is_terminal(nodes[selected[1]])
  /\ \E a \in SeqRange(unexplored_actions(nodes[selected[1]])) :
       nodes' = expand_tree(selected[1], a)
  /\ expanded' = Some(Len(nodes) + 1)
  /\ current_id' = current_id + 1
  /\ pc' = "simulate"
  /\ UNCHANGED << n_iterations, iter, cur, path, selected, sim, sim_steps,
                  result, pre, ret, error >>

\* simulate: the transient copy of the node the rollout starts from.
simulate_begin ==
  /\ pc = "simulate"
  /\ LET node == nodes[expanded[1]]
     IN sim' = Some(Node_new(node.id, node.action, node.state, node.parent_id))
  /\ sim_steps' = 0
  /\ pc' = "rollout"
  /\ UNCHANGED << nodes, current_id, n_iterations, iter, cur, path, selected,
                  expanded, result, pre, ret, error >>

\* The node simulate's loop body moves to: the new node pushed onto the
\* transient current_node.
simulate_push(node, a) == Node_new(0, a, apply_action(node.state, a), None)

\* Mutant: the rollout runs on the tree's own node, so the pushed node is
\* linked below the node the rollout started from.
simulate_tree_attached(a) ==
  Append([nodes EXCEPT ![expanded[1]].children = Append(@, Len(nodes) + 1)],
         simulate_push(sim[1], a))

\* The tree after one turn of simulate's loop: current_node.children.push
\* lands on the transient node, which no node of the tree owns.
simulate_tree(a) == nodes

\* simulate: one turn of while !is_terminal(current_node).
simulate_step ==
  /\ pc = "rollout"
  /\ ~is_terminal(sim[1])
  /\ \E a \in SeqRange(unexplored_actions(sim[1])) :
       /\ sim' = Some(simulate_push(sim[1], a))
       /\ nodes' = simulate_tree(a)
  /\ sim_steps' = sim_steps + 1
  /\ UNCHANGED << current_id, n_iterations, iter, pc, cur, path,
                  selected, expanded, result, pre, ret, error >>

\* simulate: evaluate(current_node); the transient nodes are dropped and mcts
\* calls backpropagate(node, result) with its outer node, select's result.
simulate_return ==
  /\ pc = "rollout"
  /\ is_terminal(sim[1])
  /\ result' = evaluate(sim[1])
  /\ sim' = None
  /\ pc' = "backprop"
  /\ cur' = selected[1]
  /\ pre' = nodes
  /\ UNCHANGED << nodes, current_id, n_iterations, iter, path, selected,
                  expanded, sim_steps, ret, error >>

\* backpropagate: one turn of the while let loop.
backpropagate_step ==
  /\ pc = "backprop"
  /\ backpropagate_continues(nodes[cur])
  /\ nodes' = [nodes EXCEPT ![cur] = backpropagate_update(@, result)]
  /\ cur' = find_node(nodes[cur].parent_id[1])
  /\ UNCHANGED << current_id, n_iterations, iter, pc, path, selected,
                  expanded, sim, sim_steps, result, pre, ret, error >>

\* backpropagate: the loop ends at a node without parent_id; the iteration
\* is complete.
backpropagate_return ==
  /\ pc = "backprop"
  /\ ~backpropagate_continues(nodes[cur])
  /\ iter' = iter + 1
  /\ pc' = "loop"
  /\ UNCHANGED << nodes, current_id, n_iterations, cur, path, selected,
                  expanded, sim, sim_steps, result, pre, ret, error >>

\* mcts: let best_action = best_action(&tree); best_action
mcts_return ==
  /\ pc = "loop"
  /\ ~loop_continues
  /\ nodes[tree_root].children # << >>
  /\ ret' = Some(best_action(nodes[tree_root]))
  /\ pc' = "done"
  /\ UNCHANGED << nodes, current_id, n_iterations, iter, cur, path, selected,
                  expanded, sim, sim_steps, result, pre, error >>

\* best_action on a root without children: NoMovesAvailable.
mcts_fail ==
  /\ pc = "loop"
  /\ ~loop_continues
  /\ nodes[tree_root].children = << >>
  /\ error' = Some("NoMovesAvailable")
  /\ pc' = "failed"
  /\ UNCHANGED << nodes, current_id, n_iterations, iter, cur, path, selected,
                  expanded, sim, sim_steps, result, pre, ret >>

Next ==
  \/ mcts_iterate
  \/ select_descend
  \/ select_return
  \/ mcts_evaluate
  \/ expand
  \/ simulate_begin
  \/ simulate_step
  \/ simulate_return
  \/ backpropagate_step
  \/ backpropagate_return
  \/ mcts_return
  \/ mcts_fail

Spec == Init /\ [][Next]_vars

\* expand's unexplored_actions.choose(&mut rng) is None when nothing is
\* unexplored, and unwrap() panics on it.
choose_is_none(node) == unexplored_actions(node) = << >>

\* expand called, between two iterations, on a node that is already fully
\* expanded (mcts itself never does): the panic unwinds through the caller,
\* and nothing runs after it.  Were an action left to draw, expand would push
\* the child and return it.
expand_on_full ==
  /\ pc = "loop"
  /\ \E p \in 1 .. Len(nodes) :
       /\ is_fully_expanded(nodes[p])
       /\ selected' = Some(p)
       /\ IF choose_is_none(nodes[p])
          THEN /\ pc' = "panicked"
               /\ error' = Some("panic")
               /\ UNCHANGED << nodes, expanded, current_id >>
          ELSE /\ \E a \in SeqRange(unexplored_actions(nodes[p])) :
                    nodes' = expand_tree(p, a)
               /\ expanded' = Some(Len(nodes) + 1)
               /\ current_id' = current_id + 1
               /\ pc' = "returned"
               /\ UNCHANGED error
  /\ UNCHANGED << n_iterations, iter, cur, path, sim, sim_steps, result, pre,
                  ret >>

ExpandMisuseNext == Next \/ expand_on_full

\* The search, with expand also called on fully expanded nodes.
ExpandMisuseSpec == Init /\ [][ExpandMisuseNext]_vars

\* The loop, the rollout and the walks are sequential code: a step that can
\* be taken is taken.
FairSpec == Spec /\ WF_vars(Next)

\* ------------------------------------------------------- the tree's shape
NodeSet == 1 .. Len(nodes)

\* The node that owns i: the one whose children list holds i.
owner_of(i) == CHOOSE p \in NodeSet : i \in SeqRange(nodes[p].children)

\* The nodes from i up to and including the root, along ownership.
RECURSIVE path_to_root(_)
path_to_root(i) == IF i = tree_root THEN {i} ELSE {i} \cup path_to_root(owner_of(i))

\* C1: in every state of a search, between the steps of a backpropagation
\* too, every node of the tree has 0 <= wins <= visits and visits >= 1.
C1_WinsWithinVisits ==
  \A i \in NodeSet :
    /\ 0 <= nodes[i].wins
    /\ nodes[i].wins <= nodes[i].visits
    /\ nodes[i].visits >= 1

\* C1 witness: in the middle of a backpropagation walk, a node that has been
\* updated at least twice and has won at least once.
C1_Witness ==
  /\ pc = "backprop"
  /\ nodes # pre
  /\ \E i \in NodeSet : nodes[i].visits >= 3 /\ nodes[i].wins >= 1

\* C2: when backpropagate(node, result) has returned, visits has grown by
\* exactly 1 on every node from the originating node up to and including the
\* root, wins has grown by 1 on exactly those nodes iff result is true, and
\* no other node's counters have changed.
C2_BackpropagateReachesRoot ==
  (pc = "loop" /\ iter > 0) =>
    \A i \in NodeSet :
      IF i \in path_to_root(selected[1])
      THEN /\ nodes[i].visits = pre[i].visits + 1
           /\ nodes[i].wins = pre[i].wins + (IF result THEN 1 ELSE 0)
      ELSE /\ nodes[i].visits = pre[i].visits
           /\ nodes[i].wins = pre[i].wins

\* C3: every node has at most as many children as its state has legal
\* actions (my_possible_actions), and no two of its children carry the same
\* action.
C3_ChildrenWithinActions ==
  \A i \in NodeSet :
    LET ch == nodes[i].children
    IN /\ Len(ch) <= Len(nodes[i].state.my_possible_actions)
       /\ \A j, k \in 1 .. Len(ch) :
            j # k => nodes[ch[j]].action # nodes[ch[k]].action

\* C3 witness: between iterations, a node other than the root whose children
\* cover both actions.
C3_Witness ==
  /\ pc = "loop"
  /\ \E i \in NodeSet \ {tree_root} : Len(nodes[i].children) = 2

\* C4: when the iteration budget is exhausted and the root has a child, the
\* action returned is that of the root child with the most visits, the one
\* inserted first among those with the most.
C4_ReturnsMostVisited ==
  pc = "done" =>
    LET ch == nodes[tree_root].children
    IN \E k \in 1 .. Len(ch) :
         /\ ret = Some(nodes[ch[k]].action)
         /\ \A j \in 1 .. Len(ch) : nodes[ch[j]].visits <= nodes[ch[k]].visits
         /\ \A j \in 1 .. (k - 1) : nodes[ch[j]].visits < nodes[ch[k]].visits

\* C4 witness: a search that returned with two root children of unequal
\* visits.
C4_Witness ==
  /\ pc = "done"
  /\ LET ch == nodes[tree_root].children
     IN Len(ch) = 2 /\ nodes[ch[1]].visits # nodes[ch[2]].visits

\* The search call is over: it returned an action or failed.
SearchOver == pc \in {"done", "failed"}

RootTerminal == nodes[tree_root].state.round = TerminalRound

RootChildless == nodes[tree_root].children = << >>

\* C5 as stated: the search fails with NoMovesAvailable whenever the root has
\* no child at move selection, and that is exactly when the initial state was
\* terminal or n_iterations = 0.
C5_ChildlessIffTerminalOrZero ==
  SearchOver =>
    /\ RootChildless => (pc = "failed" /\ error = Some("NoMovesAvailable") /\ ret = None)
    /\ RootChildless <=> (RootTerminal \/ n_iterations = 0)

\* C5 amended: ... exactly when the initial state was terminal or
\* n_iterations <= 0 (the range 0..n_iterations is empty for a negative n).
C5_ChildlessIffTerminalOrNoIteration ==
  SearchOver =>
    /\ RootChildless => (pc = "failed" /\ error = Some("NoMovesAvailable") /\ ret = None)
    /\ RootChildless <=> (RootTerminal \/ n_iterations <= 0)

\* C5 witness: a search from a terminal state that ran its iterations and
\* failed.
C5_Witness ==
  /\ pc = "failed"
  /\ RootTerminal
  /\ n_iterations >= 2
  /\ iter = n_iterations

\* C6: from a non-terminal initial state and with n_iterations >= 1 the
\* search terminates: all n_iterations iterations complete and the call
\* returns Heads or Tails.
C6_SearchTerminates ==
  (n_iterations >= 1 /\ ~RootTerminal)
    ~> (pc = "done" /\ iter = n_iterations /\ ret \in {Some(Heads), Some(Tails)})

\* C6 witness: a search from main's state that completed at least five
\* iterations and returned.
C6_Witness ==
  /\ pc = "done"
  /\ nodes[tree_root].state.round = 0
  /\ iter >= 5
  /\ ret = Some(Tails)

\* The node select moved to from the k-th node of its descent.
descent_next(k) == IF k < Len(path) THEN path[k + 1] ELSE cur

ChildCount(i) == Len(nodes[i].children)

ActionCount(i) == Len(nodes[i].state.my_possible_actions)

\* C7: select starts at the root; every node it descends through is fully
\* expanded (children count = legal action count) and non-terminal, each
\* step goes to a child, and the node it returns is terminal or not fully
\* expanded.
C7_SelectStopsAtFrontier ==
  pc \in {"select", "branch"} =>
    /\ descent_next(0) = tree_root
    /\ \A k \in 1 .. Len(path) :
         /\ ChildCount(path[k]) = ActionCount(path[k])
         /\ nodes[path[k]].state.round # TerminalRound
         /\ descent_next(k) \in SeqRange(nodes[path[k]].children)
    /\ pc = "branch" =>
         /\ selected = Some(cur)
         /\ \/ nodes[cur].state.round = TerminalRound
            \/ ChildCount(cur) # ActionCount(cur)

\* C7 witness: select returned a terminal node two levels below the root.
C7_Witness ==
  /\ pc = "branch"
  /\ Len(path) = 2
  /\ nodes[cur].state.round = TerminalRound

\* UCB1 as the claim writes it, with C = sqrt 2, in thousandths.
C8_Score(p, c) ==
  (1000 * nodes[c].wins) \div nodes[c].visits
    + ISqrt((2 * Ln1000(nodes[p].visits) * 1000) \div nodes[c].visits)

\* C8: each step of the descent goes to the child with the greatest UCB1
\* score, and among children with exactly that score to the one inserted
\* first.
C8_DescendsToBestUcb ==
  pc \in {"select", "branch"} =>
    \A k \in 1 .. Len(path) :
      LET p == path[k]
          ch == nodes[p].children
      IN \E b \in 1 .. Len(ch) :
           /\ descent_next(k) = ch[b]
           /\ \A j \in 1 .. Len(ch) : C8_Score(p, ch[j]) <= C8_Score(p, ch[b])
           /\ \A j \in 1 .. (b - 1) : C8_Score(p, ch[j]) < C8_Score(p, ch[b])

\* C8 witness: a descent step that went to the second child although its
\* win rate is not the greater one: the exploration term decided.
C8_Witness ==
  /\ pc = "branch"
  /\ \E k \in 1 .. Len(path) :
       LET ch == nodes[path[k]].children
       IN /\ descent_next(k) = ch[2]
          /\ nodes[ch[2]].wins * nodes[ch[1]].visits
               <= nodes[ch[1]].wins * nodes[ch[2]].visits

\* C9: expand, on a non-terminal node with an untried action, appends
\* exactly one node to the end of that node's children: a legal action no
\* earlier child carries, visits 1, wins 0, no children, the successor of
\* the parent's state; it is the node returned, and the parent's other
\* fields and every other node are unchanged.
C9_ExpandAppendsOneChild ==
  [][(pc = "branch" /\ pc' = "simulate") =>
       LET p == selected[1]
           n == Len(nodes) + 1
           old == nodes[p]
           new == nodes'[n]
       IN /\ old.state.round # TerminalRound
          /\ Len(old.children) < Len(old.state.my_possible_actions)
          /\ Len(nodes') = n
          /\ expanded' = Some(n)
          /\ nodes'[p] = [old EXCEPT !.children = Append(old.children, n)]
          /\ \A i \in NodeSet \ {p} : nodes'[i] = nodes[i]
          /\ new.visits = 1 /\ new.wins = 0 /\ new.children = << >>
          /\ new.action \in SeqRange(old.state.my_possible_actions)
          /\ \A k \in 1 .. Len(old.children) :
               nodes[old.children[k]].action # new.action
          /\ new.state.round = old.state.round + 1
          /\ new.state.my_score
               = old.state.my_score + (IF new.action = Heads THEN 1 ELSE 0)
          /\ new.state.op_score
               = old.state.op_score + (IF new.action = Tails THEN 1 ELSE 0)
          /\ new.state.my_possible_actions = old.state.my_possible_actions
          /\ new.state.op_possible_actions = old.state.op_possible_actions
    ]_vars

\* C9 witness: expand has just added a second child to a node below the
\* root that has been visited before.
C9_Witness ==
  /\ pc = "simulate"
  /\ selected[1] # tree_root
  /\ Len(nodes[selected[1]].children) = 2
  /\ nodes[selected[1]].visits >= 2
  /\ nodes[selected[1]].children[2] = expanded[1]

\* C10: simulate leaves the tree as it found it: from its call to its
\* return no node's visits, wins, action, state or children change and no
\* node is added to the tree.
C10_SimulateLeavesTree ==
  [][(pc \in {"simulate", "rollout"}) => (nodes' = nodes)]_vars

\* C10 witness: a rollout of at least eight steps has reached a terminal
\* state and is about to return.
C10_Witness ==
  /\ pc = "rollout"
  /\ sim_steps >= 8
  /\ sim[1].state.round = TerminalRound
\* Select has returned a node whose state is terminal.
SelectedTerminal ==
  selected # None /\ nodes[selected[1]].state.round = TerminalRound

\* C11: when select returns a terminal node, neither expand nor simulate
\* runs in that iteration and the outcome backpropagated is my_score >
\* op_score of that node's own state; and no node with a terminal state
\* (round = 10) ever has a child.
C11_TerminalEvaluatedNotExpanded ==
  /\ \A i \in NodeSet :
       nodes[i].state.round = TerminalRound => nodes[i].children = << >>
  /\ SelectedTerminal =>
       /\ pc \notin {"simulate", "rollout"}
       /\ expanded = None
       /\ pc # "branch" =>
            result = (nodes[selected[1]].state.my_score
                        > nodes[selected[1]].state.op_score)

\* C11 witness: a terminal node below the root was selected and evaluated as
\* a win, and backpropagate is about to start from it.
C11_Witness ==
  /\ pc = "backprop"
  /\ SelectedTerminal
  /\ selected[1] # tree_root
  /\ result = TRUE
  /\ nodes = pre
\* C12: expand called on a fully expanded node fails loudly (the panic of
\* unwrap on None, which aborts the search call): it adds no child, changes
\* no node, hands no node back, and nothing runs after it.
C12_ExpandOnFullPanics ==
  [][/\ (pc = "loop" /\ pc' \notin {"loop", "select", "done", "failed"}) =>
          /\ pc' = "panicked"
          /\ error' = Some("panic")
          /\ nodes' = nodes
          /\ expanded' = expanded
          /\ ret' = None
     /\ pc = "panicked" => (pc' = "panicked" /\ nodes' = nodes /\ ret' = None)
    ]_vars

\* C12 witness: expand has panicked on a fully expanded node below the root.
C12_Witness ==
  /\ pc = "panicked"
  /\ selected[1] # tree_root
  /\ Len(nodes[selected[1]].children) = 2
  /\ error = Some("panic")
\* C14: no step of a search lowers the visits of a node of the tree (and no
\* node leaves the tree), so a node's visits at a later point is never less
\* than at an earlier one.
C14_VisitsNeverDecrease ==
  [][/\ Len(nodes') >= Len(nodes)
     /\ \A i \in NodeSet : nodes'[i].visits >= nodes[i].visits]_vars

\* C14 witness: between iterations, a node below the root whose visits have
\* grown over at least three backpropagations, one of them a loss.
C14_Witness ==
  /\ pc = "loop"
  /\ \E i \in NodeSet \ {tree_root} :
       nodes[i].visits >= 4 /\ nodes[i].wins < nodes[i].visits - 1

\* C15: the GameState stored in a node never changes once the node is in
\* the tree: every step of select, expand, simulate, evaluate and
\* backpropagate leaves the state of every existing node as it was, and
\* expand's new node carries a state of its own, one round further.
C15_NodeStateImmutable ==
  [][/\ \A i \in NodeSet : nodes'[i].state = nodes[i].state
     /\ \A i \in (1 .. Len(nodes')) \ NodeSet :
          \E p \in NodeSet :
            /\ i \in SeqRange(nodes'[p].children)
            /\ nodes'[i].state.round = nodes[p].state.round + 1]_vars

\* C15 witness: a search from main's state that has completed five
\* iterations, with expansions below the root, rollouts and backpropagation
\* walks behind it.
C15_Witness ==
  /\ pc = "loop"
  /\ iter >= 5
  /\ nodes[tree_root].state = GameState(0, 0, 0)
  /\ \E i \in NodeSet : nodes[i].state.round = 2 /\ nodes[i].visits >= 2
\* C16: node ids are pairwise distinct, the root has parent_id = None, and
\* every other node's parent_id is the id of the node whose children list
\* holds it.
C16_ParentIdIsOwnerId ==
  /\ \A i, j \in NodeSet : i # j => nodes[i].id # nodes[j].id
  /\ nodes[tree_root].parent_id = None
  /\ \A i \in NodeSet \ {tree_root} :
       nodes[i].parent_id = Some(nodes[owner_of(i)].id)

\* visits - 1 summed over the first k children of node i.
RECURSIVE child_visits_sum(_, _)
child_visits_sum(i, k) ==
  IF k = 0 THEN 0
  ELSE child_visits_sum(i, k - 1) + nodes[nodes[i].children[k]].visits - 1

\* wins summed over the first k children of node i.
RECURSIVE child_wins_sum(_, _)
child_wins_sum(i, k) ==
  IF k = 0 THEN 0
  ELSE child_wins_sum(i, k - 1) + nodes[nodes[i].children[k]].wins

\* C17: between iterations the root has visits = 1 + the number of
\* completed iterations, and every non-terminal node has visits - 1 = the
\* sum of (visits - 1) over its children and wins = the sum of its
\* children's wins.
C17_StatisticsConserved ==
  pc = "loop" =>
    /\ nodes[tree_root].visits = 1 + iter
    /\ \A i \in NodeSet :
         nodes[i].state.round # TerminalRound =>
           /\ nodes[i].visits - 1 = child_visits_sum(i, ChildCount(i))
           /\ nodes[i].wins = child_wins_sum(i, ChildCount(i))

\* The search was started from main's state.
FromMainState ==
  /\ nodes[tree_root].state.round = 0
  /\ nodes[tree_root].state.my_score = 0
  /\ nodes[tree_root].state.op_score = 0

\* Rounds stay within the game and the two scores add up to the round.
C18_StateInGame(state) ==
  /\ 0 <= state.round
  /\ state.round <= TerminalRound
  /\ state.my_score + state.op_score = state.round

\* C18: in a search from (0, 0, round 0) every node of the tree and every
\* rollout state has 0 <= round <= 10 and my_score + op_score = round; a
\* child is one round after the node that owns it, with my_score one higher
\* if its action is Heads and op_score one higher if it is Tails; and a
\* rollout that started at round r is at round r + (steps taken), so it ends
\* after exactly 10 - r steps.
C18_RoundsAndScores ==
  FromMainState =>
    /\ \A i \in NodeSet : C18_StateInGame(nodes[i].state)
    /\ \A i \in NodeSet \ {tree_root} :
         LET c == nodes[i].state
             p == nodes[owner_of(i)].state
         IN /\ c.round = p.round + 1
            /\ c.my_score = p.my_score + (IF nodes[i].action = Heads THEN 1 ELSE 0)
            /\ c.op_score = p.op_score + (IF nodes[i].action = Tails THEN 1 ELSE 0)
    /\ pc = "rollout" =>
         /\ C18_StateInGame(sim[1].state)
         /\ sim[1].state.round = nodes[expanded[1]].state.round + sim_steps
         /\ sim_steps <= TerminalRound - nodes[expanded[1]].state.round

\* C18 witness: a rollout from a node of round 2 has taken its eighth step
\* and reached round 10.
C18_Witness ==
  /\ FromMainState
  /\ pc = "rollout"
  /\ nodes[expanded[1]].state.round = 2
  /\ sim_steps = 8
  /\ sim[1].state.round = TerminalRound
====
